---- MODULE Spec2Model ----
(***************************************************************************)
(* Lifecycle model of the Minecraft server supervisor                      *)
(* (src/server/ionmc/MinecraftServer.ts): one MinecraftServer object, the  *)
(* child processes it spawns, the timers it arms and the events it emits.  *)
(*                                                                         *)
(* The methods of the class are operators over a record `t` that holds the *)
(* object's fields together with the timers/listeners it has registered    *)
(* and the effects of the call in progress (events emitted, text written   *)
(* to the process input, signals sent).  An action runs one public call,   *)
(* one timer callback or one process notification to completion, as the    *)
(* single-threaded event loop does.                                        *)
(*                                                                         *)
(* The output ring buffer (outputBuffer) is not part of this lifecycle     *)
(* specification: no lifecycle field depends on it.                        *)
(***************************************************************************)
EXTENDS Integers, Sequences, FiniteSets, TLC

\* ------------------------------------------------------------------ bounds
MaxSpawns == 2      \* processes spawned in one behaviour
MaxStops == 3       \* graceful stop() calls on one process
MaxServiceStops == 1 \* graceful stop() calls on one process of the service specification
MaxParseChunk == 2  \* lines in one output chunk
MaxPendingRestarts == 1 \* restartServer calls waiting out their delay at one time
MaxClock == 2               \* the clock is followed up to this second
MaxLine == 6                \* characters of one line in the escape specification
MaxText == 5        \* characters of output delivered in the text specification
MaxProduced == 1003 \* lines produced in the output buffer specification
MaxBufChunk == 2    \* lines in one output chunk of the output buffer specification

\* --------------------------------------------------------- program values
NULL == 0                   \* childProcess / startTime when unset
maxRestartAttempts == 3
maxOutputBuffer == 1000
SignalCode == -1            \* exit reported with code null (killed by a signal)

Statuses == {"stopped", "starting", "running", "stopping", "crashed"}
PlayerNames == {"alice"}
Commands == {"say hi"}
Pids == 1..MaxSpawns
\* Date.now(): the supervisor only tests whether a start time is set, so one
\* nonzero reading stands for all
Clock == {1}

\* outcomes of child_process.spawn: a process, a synchronous throw, or a
\* handle whose spawn error is reported asynchronously (no exit event follows)
SpawnOutcomes == {"ok", "throw", "asyncError"}

\* a line of output, by the pattern of parseLogLine it matches: the Ready
\* line, "<name> joined the game", "<name> left the game", "There are <n> of
\* a max of <max> players online: <names>", a line containing ERROR, FATAL or
\* Exception ("error"; "readyError" when it is a Ready line as well), or none
\* of them
Line(kind, name, max, names) ==
  [kind |-> kind, name |-> name, max |-> max, names |-> names]

\* the lines a process prints in the lifecycle specification
Lines ==
  {Line(k, "", 0, <<>>) : k \in {"ready", "other", "error", "readyError"}}
    \cup {Line(k, n, 0, <<>>) : k \in {"join", "leave"}, n \in PlayerNames}

RECURSIVE SeqsUpTo(_, _)
SeqsUpTo(S, n) ==
  IF n = 0 THEN {<<>>}
  ELSE LET shorter == SeqsUpTo(S, n - 1)
       IN shorter \cup {Append(s, x) : s \in {q \in shorter : Len(q) = n - 1}, x \in S}

\* handleOutput takes the lines of a chunk one after the other with nothing in
\* between, so the lifecycle specification delivers them one to a chunk; the
\* parser specification delivers longer chunks
Chunks == {<<l>> : l \in Lines}

VARIABLES
  status,          \* this.status
  childProcess,    \* this.childProcess: NULL or the pid of the handle
  startTime,       \* this.startTime: NULL or a clock reading
  players,         \* this.players
  maxPlayers,      \* this.maxPlayers
  restartAttempts, \* this.restartAttempts
  autoRestart,     \* this.autoRestart (from the config)
  stopTimeouts,    \* pid -> pending graceful-stop timeouts armed while pid was the child
  exitListeners,   \* pid -> exit listeners registered on pid by stop()
  restartTimers,   \* pending restart-delay timers
  emitted,         \* events emitted by the last step, in order
  written,         \* <<pid, text>> written to a process input by the last step
  signalled,       \* <<pid, signal>> sent by the last step
  procState,       \* pid -> "none" | "alive" | "failed" | "failedReported" | "exited" | "reaped"
  procExit,        \* pid -> exit code of an exited process (SignalCode: none)
  nextPid,         \* pid of the next process spawned
  jarExists,       \* existsSync(jarPath)
  lastOp,          \* the last step: what ran, in which status, what it returned
  autoStarts,      \* processes spawned by restart timers since the last explicit start()
  outputBuffer,    \* this.outputBuffer
  produced,        \* every line handed to addToOutputBuffer so far, in order
  recent,          \* the last call of getRecentOutput: its argument and result
  text,            \* every character of output delivered so far, in order
  runningServers,  \* ServerControlService.runningServers for one server id: NULL or its supervisor
  supervisors,     \* the supervisors the service started: supervisors[p] spawned process p
  pendingDeletes,  \* 'stopped'/'crashed' listeners awaiting updateStatus before their delete
  pendingRestarts, \* restartServer calls between their stopServer and their startServer
  lastReg,         \* the last call on the service and its result
  listeners,       \* whether the subscriptions made with on() are still registered
  pollers,         \* pending checkStatus timers of restart()
  pollTick,        \* flips whenever a checkStatus timer is armed again
  record,          \* the persisted record of the server (status, timestamps, uptime)
  clock            \* the time of day, in seconds

objVars == <<status, childProcess, startTime, players, maxPlayers, restartAttempts,
             stopTimeouts, exitListeners, restartTimers, emitted, written, signalled>>
envVars == <<procState, procExit, nextPid, jarExists, autoRestart>>
bufVars == <<outputBuffer, produced, recent, text>>
regVars == <<runningServers, supervisors, pendingDeletes, pendingRestarts, lastReg>>
dbVars == <<record, clock>>
auxVars == <<listeners, pollers, pollTick, dbVars>>
vars == <<objVars, envVars, lastOp, autoStarts, bufVars, regVars, auxVars>>

\* ------------------------------------------------------------ the object
\* the object at the start of a call: its fields, with empty effect logs
This ==
  [status |-> status, childProcess |-> childProcess, startTime |-> startTime,
   players |-> players, maxPlayers |-> maxPlayers, restartAttempts |-> restartAttempts,
   stopTimeouts |-> stopTimeouts, exitListeners |-> exitListeners,
   restartTimers |-> restartTimers,
   emitted |-> <<>>, written |-> <<>>, signalled |-> <<>>]

Commit(t) ==
  /\ status' = t.status
  /\ childProcess' = t.childProcess
  /\ startTime' = t.startTime
  /\ players' = t.players
  /\ maxPlayers' = t.maxPlayers
  /\ restartAttempts' = t.restartAttempts
  /\ stopTimeouts' = t.stopTimeouts
  /\ exitListeners' = t.exitListeners
  /\ restartTimers' = t.restartTimers
  /\ emitted' = t.emitted
  /\ written' = t.written
  /\ signalled' = t.signalled

emit(t, e) == [t EXCEPT !.emitted = Append(@, e)]

\* mutant: the event is emitted even when the status does not change
setStatus_AlwaysEmits(t, newStatus) ==
  emit([t EXCEPT !.status = newStatus],
       [type |-> "statusChange", oldStatus |-> t.status, newStatus |-> newStatus])

setStatus(t, newStatus) ==
  IF t.status # newStatus
  THEN emit([t EXCEPT !.status = newStatus],
            [type |-> "statusChange", oldStatus |-> t.status, newStatus |-> newStatus])
  ELSE t

kill(t, pid, sig) == [t EXCEPT !.signalled = Append(@, <<pid, sig>>)]

\* the process input is always a pipe (stdio: ['pipe', 'pipe', 'pipe'])
StdinPiped == TRUE

\* mutant: the status is not checked, any live handle accepts a command
executeCommand_NoStatusCheck(t, command) ==
  IF t.childProcess = NULL
  THEN [this |-> t, ret |-> "false"]
  ELSE [this |-> emit([t EXCEPT !.written = Append(@, <<t.childProcess, command>>)],
                      [type |-> "command", command |-> command]),
        ret |-> "true"]

executeCommand(t, command) ==
  IF t.childProcess = NULL \/ t.status # "running"
  THEN [this |-> t, ret |-> "false"]
  ELSE IF StdinPiped
       THEN [this |-> emit([t EXCEPT !.written = Append(@, <<t.childProcess, command>>)],
                           [type |-> "command", command |-> command]),
             ret |-> "true"]
       ELSE [this |-> t, ret |-> "false"]

\* mutant: a successful spawn is reported as running at once
start_SetsRunning(t, outcome, now) ==
  IF t.status # "stopped"
  THEN [this |-> t, ret |-> "throw"]
  ELSE IF ~jarExists
  THEN [this |-> t, ret |-> "throw"]
  ELSE LET t1 == [setStatus(t, "starting") EXCEPT !.startTime = now, !.restartAttempts = 0]
       IN IF outcome = "throw"
          THEN [this |-> emit(setStatus(t1, "crashed"), [type |-> "error"]),
                ret |-> "false"]
          ELSE [this |-> emit([setStatus(t1, "running") EXCEPT !.childProcess = nextPid],
                              [type |-> "starting"]),
                ret |-> "true"]

start(t, outcome, now) ==
  IF t.status # "stopped"
  THEN [this |-> t, ret |-> "throw"]
  ELSE IF ~jarExists
  THEN [this |-> t, ret |-> "throw"]
  ELSE LET t1 == [setStatus(t, "starting") EXCEPT !.startTime = now, !.restartAttempts = 0]
       IN IF outcome = "throw"
          THEN [this |-> emit(setStatus(t1, "crashed"), [type |-> "error"]),
                ret |-> "false"]
          ELSE [this |-> emit([t1 EXCEPT !.childProcess = nextPid], [type |-> "starting"]),
                ret |-> "true"]

\* mutant: no early return, a stopped supervisor goes through stopping again
stop_NoEarlyReturn(t, force) ==
  LET t1 == emit(setStatus(t, "stopping"), [type |-> "stopping"])
  IN IF t1.childProcess = NULL
     THEN [this |-> setStatus(t1, "stopped"), ret |-> "true"]
     ELSE IF force
     THEN [this |-> kill(t1, t1.childProcess, "SIGKILL"), ret |-> "true"]
     ELSE LET t2 == executeCommand(t1, "stop").this
              p == t2.childProcess
          IN [this |-> [t2 EXCEPT !.stopTimeouts[p] = @ + 1,
                                  !.exitListeners[p] = @ + 1],
              ret |-> "true"]

\* mutant: without a process the supervisor is left in stopping
stop_NoProcessStaysStopping(t, force) ==
  IF t.status = "stopped"
  THEN [this |-> t, ret |-> "true"]
  ELSE LET t1 == emit(setStatus(t, "stopping"), [type |-> "stopping"])
       IN IF t1.childProcess = NULL
          THEN [this |-> t1, ret |-> "true"]
          ELSE IF force
          THEN [this |-> kill(t1, t1.childProcess, "SIGKILL"), ret |-> "true"]
          ELSE LET t2 == executeCommand(t1, "stop").this
                   p == t2.childProcess
               IN [this |-> [t2 EXCEPT !.stopTimeouts[p] = @ + 1,
                                       !.exitListeners[p] = @ + 1],
                   ret |-> "true"]

stop(t, force) ==
  IF t.status = "stopped"
  THEN [this |-> t, ret |-> "true"]
  ELSE LET t1 == emit(setStatus(t, "stopping"), [type |-> "stopping"])
       IN IF t1.childProcess = NULL
          THEN [this |-> setStatus(t1, "stopped"), ret |-> "true"]
          ELSE IF force
          THEN [this |-> kill(t1, t1.childProcess, "SIGKILL"), ret |-> "true"]
          ELSE LET t2 == executeCommand(t1, "stop").this
                   p == t2.childProcess
               IN [this |-> [t2 EXCEPT !.stopTimeouts[p] = @ + 1,
                                       !.exitListeners[p] = @ + 1],
                   ret |-> "true"]

\* the callback of the graceful-stop timeout
stopTimeoutCallback(t) ==
  IF t.childProcess # NULL THEN kill(t, t.childProcess, "SIGTERM") ELSE t

\* new Set(names.split(', ').filter(name => name.trim()))
NameSet(names) == {names[i] : i \in 1..Len(names)}

\* cleanLine.includes('Done (') && cleanLine.includes('s)! For help, type "help"')
MatchesReady(line) == line.kind \in {"ready", "readyError"}

\* cleanLine.includes('ERROR') || includes('FATAL') || includes('Exception')
MatchesError(line) == line.kind \in {"error", "readyError"}

\* mutant: a leave line emits its event but keeps the player
parseLogLine_LeaveKeepsPlayer(t, line) ==
  LET t1 == IF MatchesReady(line)
            THEN emit(setStatus(t, "running"), [type |-> "started"])
            ELSE t
      t2 == IF line.kind = "join"
            THEN emit([t1 EXCEPT !.players = @ \cup {line.name}],
                      [type |-> "playerJoin", playerName |-> line.name])
            ELSE t1
      t3 == IF line.kind = "leave"
            THEN emit(t2, [type |-> "playerLeave", playerName |-> line.name])
            ELSE t2
      t4 == IF line.kind = "list" /\ line.names # <<>>
            THEN [t3 EXCEPT !.maxPlayers = line.max, !.players = NameSet(line.names)]
            ELSE t3
  IN IF MatchesError(line) THEN emit(t4, [type |-> "error"]) ELSE t4

\* mutant: a list line adds the listed names to the player set
parseLogLine_ListAddsNames(t, line) ==
  LET t1 == IF MatchesReady(line)
            THEN emit(setStatus(t, "running"), [type |-> "started"])
            ELSE t
      t2 == IF line.kind = "join"
            THEN emit([t1 EXCEPT !.players = @ \cup {line.name}],
                      [type |-> "playerJoin", playerName |-> line.name])
            ELSE t1
      t3 == IF line.kind = "leave"
            THEN emit([t2 EXCEPT !.players = @ \ {line.name}],
                      [type |-> "playerLeave", playerName |-> line.name])
            ELSE t2
      t4 == IF line.kind = "list" /\ line.names # <<>>
            THEN [t3 EXCEPT !.maxPlayers = line.max, !.players = @ \cup NameSet(line.names)]
            ELSE t3
  IN IF MatchesError(line) THEN emit(t4, [type |-> "error"]) ELSE t4

\* mutant: an error line marks the supervisor crashed
parseLogLine_ErrorCrashes(t, line) ==
  LET t1 == IF MatchesReady(line)
            THEN emit(setStatus(t, "running"), [type |-> "started"])
            ELSE t
      t2 == IF line.kind = "join"
            THEN emit([t1 EXCEPT !.players = @ \cup {line.name}],
                      [type |-> "playerJoin", playerName |-> line.name])
            ELSE t1
      t3 == IF line.kind = "leave"
            THEN emit([t2 EXCEPT !.players = @ \ {line.name}],
                      [type |-> "playerLeave", playerName |-> line.name])
            ELSE t2
      t4 == IF line.kind = "list" /\ line.names # <<>>
            THEN [t3 EXCEPT !.maxPlayers = line.max, !.players = NameSet(line.names)]
            ELSE t3
  IN IF MatchesError(line) THEN emit(setStatus(t4, "crashed"), [type |-> "error"]) ELSE t4

\* mutant: the Ready line empties the player set
parseLogLine_ReadyClearsPlayers(t, line) ==
  LET t1 == IF MatchesReady(line)
            THEN emit([setStatus(t, "running") EXCEPT !.players = {}], [type |-> "started"])
            ELSE t
      t2 == IF line.kind = "join"
            THEN emit([t1 EXCEPT !.players = @ \cup {line.name}],
                      [type |-> "playerJoin", playerName |-> line.name])
            ELSE t1
      t3 == IF line.kind = "leave"
            THEN emit([t2 EXCEPT !.players = @ \ {line.name}],
                      [type |-> "playerLeave", playerName |-> line.name])
            ELSE t2
  \* the list pattern ends in "online: (.+)": it needs text after the colon
      t4 == IF line.kind = "list" /\ line.names # <<>>
            THEN [t3 EXCEPT !.maxPlayers = line.max, !.players = NameSet(line.names)]
            ELSE t3
  IN IF MatchesError(line) THEN emit(t4, [type |-> "error"]) ELSE t4

parseLogLine(t, line) ==
  LET t1 == IF MatchesReady(line)
            THEN emit(setStatus(t, "running"), [type |-> "started"])
            ELSE t
      t2 == IF line.kind = "join"
            THEN emit([t1 EXCEPT !.players = @ \cup {line.name}],
                      [type |-> "playerJoin", playerName |-> line.name])
            ELSE t1
      t3 == IF line.kind = "leave"
            THEN emit([t2 EXCEPT !.players = @ \ {line.name}],
                      [type |-> "playerLeave", playerName |-> line.name])
            ELSE t2
  \* the list pattern ends in "online: (.+)": it needs text after the colon
      t4 == IF line.kind = "list" /\ line.names # <<>>
            THEN [t3 EXCEPT !.maxPlayers = line.max, !.players = NameSet(line.names)]
            ELSE t3
  IN IF MatchesError(line) THEN emit(t4, [type |-> "error"]) ELSE t4

RECURSIVE handleOutput(_, _)
handleOutput(t, data) ==
  IF data = <<>> THEN t
  ELSE handleOutput(emit(parseLogLine(t, Head(data)), [type |-> "output", output |-> Head(data)]),
                    Tail(data))

\* mutant: any exit while stopping counts as a clean stop
handleProcessExit_StoppingIsClean(t, exitCode) ==
  LET t1 == [t EXCEPT !.childProcess = NULL, !.startTime = NULL, !.players = {}]
  IN IF exitCode = 0 \/ t.status = "stopping"
     THEN emit(setStatus(t1, "stopped"), [type |-> "stopped", exitCode |-> exitCode])
     ELSE LET t2 == emit(setStatus(t1, "crashed"), [type |-> "crashed", exitCode |-> exitCode])
          IN IF autoRestart /\ t2.restartAttempts < maxRestartAttempts
             THEN [t2 EXCEPT !.restartAttempts = @ + 1, !.restartTimers = @ + 1]
             ELSE t2

\* mutant: the process handle is kept after the exit
handleProcessExit_KeepsHandle(t, exitCode) ==
  LET t1 == [t EXCEPT !.startTime = NULL, !.players = {}]
  IN IF exitCode = 0
     THEN emit(setStatus(t1, "stopped"), [type |-> "stopped", exitCode |-> exitCode])
     ELSE LET t2 == emit(setStatus(t1, "crashed"), [type |-> "crashed", exitCode |-> exitCode])
          IN IF autoRestart /\ t2.restartAttempts < maxRestartAttempts
             THEN [t2 EXCEPT !.restartAttempts = @ + 1, !.restartTimers = @ + 1]
             ELSE t2

\* mutant: a restart is scheduled however many were attempted
handleProcessExit_NoAttemptLimit(t, exitCode) ==
  LET t1 == [t EXCEPT !.childProcess = NULL, !.startTime = NULL, !.players = {}]
  IN IF exitCode = 0
     THEN emit(setStatus(t1, "stopped"), [type |-> "stopped", exitCode |-> exitCode])
     ELSE LET t2 == emit(setStatus(t1, "crashed"), [type |-> "crashed", exitCode |-> exitCode])
          IN IF autoRestart
             THEN [t2 EXCEPT !.restartAttempts = @ + 1, !.restartTimers = @ + 1]
             ELSE t2

handleProcessExit(t, exitCode) ==
  LET t1 == [t EXCEPT !.childProcess = NULL, !.startTime = NULL, !.players = {}]
  IN IF exitCode = 0
     THEN emit(setStatus(t1, "stopped"), [type |-> "stopped", exitCode |-> exitCode])
     ELSE LET t2 == emit(setStatus(t1, "crashed"), [type |-> "crashed", exitCode |-> exitCode])
          IN IF autoRestart /\ t2.restartAttempts < maxRestartAttempts
             THEN [t2 EXCEPT !.restartAttempts = @ + 1, !.restartTimers = @ + 1]
             ELSE t2

\* mutant: an exit without a numeric code is passed on as it is
exitCodeOrZero_KeepsNull(code) == code

\* code || 0: an exit reported without a numeric code counts as 0
exitCodeOrZero(code) == IF code = SignalCode THEN 0 ELSE code

\* mutant: the listener does not clear its timeout
stopExitListener_NoClear(t, pid, code) ==
  handleProcessExit(t, exitCodeOrZero(code))

\* the exit listener stop() registers: clearTimeout(timeout), then handleProcessExit
stopExitListener(t, pid, code) ==
  handleProcessExit([t EXCEPT !.stopTimeouts[pid] = IF @ > 0 THEN @ - 1 ELSE 0],
                    exitCodeOrZero(code))

RECURSIVE runStopExitListeners(_, _, _, _)
runStopExitListeners(t, pid, code, n) ==
  IF n = 0 THEN t
  ELSE runStopExitListeners(stopExitListener(t, pid, code), pid, code, n - 1)

\* emit('exit', code) on the process: the listener of setupProcessHandlers
\* first, then the listeners of stop() in registration order
processExitEvent(t, pid, code) ==
  LET t1 == handleProcessExit(t, exitCodeOrZero(code))
      t2 == runStopExitListeners(t1, pid, code, t.exitListeners[pid])
  IN [t2 EXCEPT !.exitListeners[pid] = 0]

getStatus ==
  [status |-> status, players |-> Cardinality(players),
   uptime |-> IF startTime # NULL THEN 1 ELSE 0]

\* ---------------------------------------------------------- the processes
\* what a signal does to a process: SIGKILL ends a live process, SIGTERM
\* ends it, makes it exit with a code of its own, or is ignored
SignalOutcomes(state, sig) ==
  IF state # "alive" THEN {[state |-> state, code |-> SignalCode]}
  ELSE IF sig = "SIGKILL" THEN {[state |-> "exited", code |-> SignalCode]}
  ELSE {[state |-> "exited", code |-> SignalCode],
        [state |-> "exited", code |-> 1],
        [state |-> "alive", code |-> SignalCode]}

\* deliver the signals of the step (at most one per step)
Deliver(t) ==
  IF t.signalled = <<>>
  THEN UNCHANGED <<procState, procExit>>
  ELSE LET p == t.signalled[1][1]
           sig == t.signalled[1][2]
       IN \E o \in SignalOutcomes(procState[p], sig) :
            /\ procState' = [procState EXCEPT ![p] = o.state]
            /\ procExit' = [procExit EXCEPT ![p] = IF procState[p] = "alive" THEN o.code ELSE @]

\* the record of a step: what ran (op), the status and child process before it
\* (from, pid), what the call returned (ret: "true", "false", "throw", or
\* "none" for a callback), the argument of stop (force), the outcome of spawn
\* drawn for start (outcome), and for a timer or process notification the
\* process it belongs to (proc), its exit code (code) and the graceful-stop
\* timeouts pending on it before the step (armed)
Op(op, ret) ==
  [op |-> op, from |-> status, pid |-> childProcess, ret |-> ret,
   force |-> FALSE, outcome |-> "", proc |-> NULL, code |-> 0, armed |-> 0]

ProcOp(op, p, code) ==
  [Op(op, "none") EXCEPT !.proc = p, !.code = code, !.armed = stopTimeouts[p]]

\* the fields of a MinecraftServer object after its constructor
NewSupervisor ==
  [status |-> "stopped", childProcess |-> NULL, startTime |-> NULL,
   players |-> {}, maxPlayers |-> 20, restartAttempts |-> 0,
   stopTimeouts |-> [p \in Pids |-> 0], exitListeners |-> [p \in Pids |-> 0],
   restartTimers |-> 0,
   emitted |-> <<>>, written |-> <<>>, signalled |-> <<>>]

\* ------------------------------------------------------------------- Init
Init ==
  /\ status = "stopped"
  /\ childProcess = NULL
  /\ startTime = NULL
  /\ players = {}
  /\ maxPlayers = 20
  /\ restartAttempts = 0
  /\ autoRestart \in BOOLEAN
  /\ stopTimeouts = [p \in Pids |-> 0]
  /\ exitListeners = [p \in Pids |-> 0]
  /\ restartTimers = 0
  /\ emitted = <<>>
  /\ written = <<>>
  /\ signalled = <<>>
  /\ procState = [p \in Pids |-> "none"]
  /\ procExit = [p \in Pids |-> SignalCode]
  /\ nextPid = 1
  /\ jarExists \in BOOLEAN
  /\ lastOp = [op |-> "init", from |-> "stopped", pid |-> NULL, ret |-> "none",
               force |-> FALSE, outcome |-> "", proc |-> NULL, code |-> 0, armed |-> 0]
  /\ autoStarts = 0
  /\ outputBuffer = <<>>
  /\ produced = <<>>
  /\ recent = [n |-> -1, lines |-> <<>>]
  /\ text = <<>>
  /\ runningServers = NULL
  /\ supervisors = <<>>
  /\ pendingDeletes = 0
  /\ pendingRestarts = 0
  /\ listeners = TRUE
  /\ pollers = 0
  /\ pollTick = FALSE
  /\ record = [status |-> "stopped", lastStarted |-> NULL, lastStopped |-> NULL,
               totalUptime |-> 0]
  /\ clock = 1
  /\ lastReg = [op |-> "init", via |-> "", tracked |-> FALSE, success |-> FALSE, created |-> FALSE]

\* ---------------------------------------------------------------- actions
\* what a call of start() does to the processes
Spawn(r, outcome) ==
  IF r.ret = "true"
  THEN /\ procState' = [procState EXCEPT ![nextPid] =
                          IF outcome = "asyncError" THEN "failed" ELSE "alive"]
       /\ nextPid' = nextPid + 1
  ELSE UNCHANGED <<procState, nextPid>>

\* an explicit call of start()
Start ==
  /\ nextPid <= MaxSpawns
  /\ \E outcome \in SpawnOutcomes, now \in Clock :
       LET r == start(This, outcome, now)
       IN /\ Commit(r.this)
          /\ Spawn(r, outcome)
          /\ lastOp' = [Op("start", r.ret) EXCEPT !.outcome = outcome]
          /\ autoStarts' = IF r.ret = "throw" THEN autoStarts ELSE 0
  /\ UNCHANGED <<procExit, jarExists, autoRestart, bufVars, regVars, auxVars>>

\* the restart-delay timer fires: setTimeout(() => this.start(), 5000)
RestartTimer ==
  /\ restartTimers > 0
  /\ nextPid <= MaxSpawns
  /\ \E outcome \in SpawnOutcomes, now \in Clock :
       LET r == start([This EXCEPT !.restartTimers = @ - 1], outcome, now)
       IN /\ Commit(r.this)
          /\ Spawn(r, outcome)
          /\ lastOp' = [Op("restartTimer", r.ret) EXCEPT !.outcome = outcome]
          /\ autoStarts' = IF r.ret = "true" THEN autoStarts + 1 ELSE autoStarts
  /\ UNCHANGED <<procExit, jarExists, autoRestart, bufVars, regVars, auxVars>>

\* a call of stop(force)
Stop ==
  /\ \E force \in BOOLEAN :
       LET r == stop(This, force)
       IN /\ childProcess # NULL /\ ~force => exitListeners[childProcess] < MaxStops
          /\ Commit(r.this)
          /\ Deliver(r.this)
          /\ lastOp' = [Op("stop", r.ret) EXCEPT !.force = force]
  /\ UNCHANGED <<nextPid, jarExists, autoRestart, autoStarts, bufVars, regVars, auxVars>>

\* a call of executeCommand(command)
ExecuteCommand ==
  /\ \E command \in Commands :
       LET r == executeCommand(This, command)
       IN /\ Commit(r.this)
          /\ lastOp' = Op("executeCommand", r.ret)
  /\ UNCHANGED <<envVars, autoStarts, bufVars, regVars, auxVars>>

\* a graceful-stop timeout armed on process p fires
StopTimeout ==
  /\ \E p \in Pids :
       /\ stopTimeouts[p] > 0
       /\ LET t == stopTimeoutCallback([This EXCEPT !.stopTimeouts[p] = @ - 1])
          IN /\ Commit(t)
             /\ Deliver(t)
             /\ lastOp' = ProcOp("stopTimeout", p, 0)
  /\ UNCHANGED <<nextPid, jarExists, autoRestart, autoStarts, bufVars, regVars, auxVars>>

\* a chunk of output arrives from a process whose pipes are open (they outlive
\* the exit event); the listeners pass it to handleOutput whichever process
\* it comes from
Output ==
  /\ \E p \in Pids : procState[p] \in {"alive", "exited", "reaped"}
  /\ \E data \in Chunks :
       /\ Commit(handleOutput(This, data))
       /\ lastOp' = Op("output", "none")
  /\ UNCHANGED <<envVars, autoStarts, bufVars, regVars, auxVars>>

\* process p exits on its own
ProcessExits ==
  /\ \E p \in Pids, code \in {0, 1} :
       /\ procState[p] = "alive"
       /\ procState' = [procState EXCEPT ![p] = "exited"]
       /\ procExit' = [procExit EXCEPT ![p] = code]
       /\ Commit(This)
       /\ lastOp' = ProcOp("processExits", p, code)
  /\ UNCHANGED <<nextPid, jarExists, autoRestart, autoStarts, bufVars, regVars, auxVars>>

\* the exit notification of process p is delivered
ExitEvent ==
  /\ \E p \in Pids :
       /\ procState[p] = "exited"
       /\ procState' = [procState EXCEPT ![p] = "reaped"]
       /\ Commit(processExitEvent(This, p, procExit[p]))
       /\ lastOp' = ProcOp("exit", p, procExit[p])
  /\ UNCHANGED <<procExit, nextPid, jarExists, autoRestart, autoStarts, bufVars, regVars, auxVars>>

\* the asynchronous spawn error of process p is reported ('error' listener)
SpawnError ==
  /\ \E p \in Pids :
       /\ procState[p] = "failed"
       /\ procState' = [procState EXCEPT ![p] = "failedReported"]
       /\ Commit(emit(This, [type |-> "error"]))
       /\ lastOp' = ProcOp("spawnError", p, 0)
  /\ UNCHANGED <<procExit, nextPid, jarExists, autoRestart, autoStarts, bufVars, regVars, auxVars>>

Next ==
  \/ Start
  \/ RestartTimer
  \/ Stop
  \/ ExecuteCommand
  \/ StopTimeout
  \/ Output
  \/ ProcessExits
  \/ ExitEvent
  \/ SpawnError

Spec == Init /\ [][Next]_vars

TypeOK ==
  /\ status \in Statuses
  /\ childProcess \in {NULL} \cup Pids
  /\ startTime \in {NULL} \cup Clock
  /\ players \subseteq PlayerNames
  /\ restartAttempts \in 0..maxRestartAttempts
  /\ restartTimers \in Nat
  /\ nextPid \in 1..(MaxSpawns + 1)

\* --------------------------------------------------------------- the parser
\* The parser specification: a started supervisor receives chunks made of
\* the lines parseLogLine tells apart: two names join and leave, the list
\* responses name nobody, one player or both.
ParseNames == {"alice", "bob"}
ParseMaxPlayers == {10}
ParseLists == {<<>>, <<"alice">>, <<"bob", "alice">>}

ParseLines ==
  {Line("ready", "", 0, <<>>), Line("other", "", 0, <<>>)}
    \cup {Line(k, n, 0, <<>>) : k \in {"join", "leave"}, n \in ParseNames}
    \cup {Line("list", "", m, names) : m \in ParseMaxPlayers, names \in ParseLists}

ParseChunks == SeqsUpTo(ParseLines, MaxParseChunk) \ {<<>>}

ParseInit ==
  /\ Init
  /\ jarExists
  /\ ~autoRestart

\* a chunk of output arrives from a process whose pipes are open
ParseOutput ==
  /\ \E p \in Pids : procState[p] \in {"alive", "exited", "reaped"}
  /\ \E data \in ParseChunks :
       /\ Commit(handleOutput(This, data))
       /\ lastOp' = Op("output", "none")
  /\ UNCHANGED <<envVars, autoStarts, bufVars, regVars, auxVars>>

ParseNext ==
  \/ Start
  \/ ParseOutput

ParseSpec == ParseInit /\ [][ParseNext]_vars

\* ------------------------------------------------------- the output buffer
\* The output buffer specification: chunks of lines reach addToOutputBuffer
\* through handleOutput, and getRecentOutput is called in between.  A line
\* is represented by its production number, so that the position and the
\* identity of every retained line are visible.

Max(a, b) == IF a > b THEN a ELSE b
Min(a, b) == IF a < b THEN a ELSE b

\* Array.prototype.slice(start): a negative start counts from the end
slice(arr, from) ==
  LET len == Len(arr)
      k == IF from < 0 THEN Max(len + from, 0) ELSE Min(from, len)
  IN SubSeq(arr, k + 1, len)

\* mutant: a full buffer keeps its oldest lines and drops the new one
addToOutputBuffer_KeepsOldest(buffer, line) ==
  LET pushed == Append(buffer, line)
  IN IF Len(pushed) > maxOutputBuffer
     THEN SubSeq(pushed, 1, maxOutputBuffer)
     ELSE pushed

addToOutputBuffer(buffer, line) ==
  LET pushed == Append(buffer, line)
  IN IF Len(pushed) > maxOutputBuffer
     THEN slice(pushed, -maxOutputBuffer)
     ELSE pushed

\* this.outputBuffer.slice(-lines)
getRecentOutput(buffer, lines) == slice(buffer, -lines)

\* the arguments getRecentOutput is called with (50 is its default)
RecentArgs == {0, 1, 50, maxOutputBuffer, maxOutputBuffer + 1}

RECURSIVE bufferLines(_, _)
bufferLines(buffer, lines) ==
  IF lines = <<>> THEN buffer
  ELSE bufferLines(addToOutputBuffer(buffer, Head(lines)), Tail(lines))

BufferInit ==
  /\ Init
  /\ jarExists
  /\ ~autoRestart

\* handleOutput receives a chunk of n lines and buffers each of them
BufferOutput ==
  /\ \E n \in 1..MaxBufChunk :
       /\ Len(produced) + n <= MaxProduced
       /\ LET lines == [i \in 1..n |-> Len(produced) + i]
          IN /\ produced' = produced \o lines
             /\ outputBuffer' = bufferLines(outputBuffer, lines)
  /\ recent' = [n |-> -1, lines |-> <<>>]
  /\ UNCHANGED <<text, objVars, envVars, lastOp, autoStarts, regVars, auxVars>>

\* a call of getRecentOutput(n)
GetRecentOutput ==
  /\ \E n \in RecentArgs :
       recent' = [n |-> n, lines |-> getRecentOutput(outputBuffer, n)]
  /\ UNCHANGED <<outputBuffer, produced, text, objVars, envVars, lastOp, autoStarts, regVars, auxVars>>

BufferNext ==
  \/ BufferOutput
  \/ GetRecentOutput

BufferSpec == BufferInit /\ [][BufferNext]_vars

\* ------------------------------------------------------------- output text
\* The text specification: handleOutput on the characters of a chunk.  The
\* text is made of four characters: "D" stands for a fragment holding
\* 'Done (', "!" for a fragment holding 's)! For help, type "help"', and the
\* space and the newline for themselves; a line is a Ready line when it
\* holds both fragments.
Chars == {"D", "!", " ", "\n"}

\* data.split(/\r?\n/)
RECURSIVE split(_, _, _)
split(data, i, cur) ==
  IF i > Len(data) THEN <<cur>>
  ELSE IF data[i] = "\n" THEN <<cur>> \o split(data, i + 1, <<>>)
  ELSE split(data, i + 1, Append(cur, data[i]))

RECURSIVE trimStart(_)
trimStart(line) ==
  IF line # <<>> /\ Head(line) = " " THEN trimStart(Tail(line)) ELSE line

RECURSIVE trimEnd(_)
trimEnd(line) ==
  IF line # <<>> /\ line[Len(line)] = " "
  THEN trimEnd(SubSeq(line, 1, Len(line) - 1))
  ELSE line

\* String.prototype.trim
trim(line) == trimEnd(trimStart(line))

\* the pattern of parseLogLine a line of text matches
TextLine(line) ==
  LET chars == {line[i] : i \in 1..Len(line)}
  IN Line(IF "D" \in chars /\ "!" \in chars THEN "ready" ELSE "other", "", 0, <<>>)

\* mutant: whitespace-only lines are buffered and emitted like the others
handleOutputLines_KeepsBlank(t, buffer, lines) ==
  LET RECURSIVE each(_, _, _)
      each(tt, buf, ls) ==
        IF ls = <<>> THEN [this |-> tt, buffer |-> buf]
        ELSE LET trimmedLine == trim(Head(ls))
             IN IF Head(ls) = <<>>
                THEN each(tt, buf, Tail(ls))
                ELSE each(emit(parseLogLine(tt, TextLine(trimmedLine)),
                               [type |-> "output", output |-> trimmedLine]),
                          addToOutputBuffer(buf, trimmedLine), Tail(ls))
  IN each(t, buffer, lines)

\* the loop of handleOutput over the lines of a chunk
handleOutputLines(t, buffer, lines) ==
  LET RECURSIVE each(_, _, _)
      each(tt, buf, ls) ==
        IF ls = <<>> THEN [this |-> tt, buffer |-> buf]
        ELSE LET trimmedLine == trim(Head(ls))
             IN IF trimmedLine = <<>>
                THEN each(tt, buf, Tail(ls))
                ELSE each(emit(parseLogLine(tt, TextLine(trimmedLine)),
                               [type |-> "output", output |-> trimmedLine]),
                          addToOutputBuffer(buf, trimmedLine), Tail(ls))
  IN each(t, buffer, lines)

\* handleOutput(data) on the text of a chunk
handleOutputText(t, buffer, data) ==
  IF data = <<>> THEN [this |-> t, buffer |-> buffer]
  ELSE handleOutputLines(t, buffer, split(data, 1, <<>>))

TextInit ==
  /\ Init
  /\ jarExists
  /\ ~autoRestart

\* a chunk of text arrives from a process whose pipes are open
TextOutput ==
  /\ \E p \in Pids : procState[p] \in {"alive", "exited", "reaped"}
  /\ \E n \in 1..(MaxText - Len(text)) : \E data \in [1..n -> Chars] :
       /\ LET r == handleOutputText(This, outputBuffer, data)
          IN /\ Commit(r.this)
             /\ outputBuffer' = r.buffer
       /\ text' = text \o data
       /\ lastOp' = Op("output", "none")
  /\ UNCHANGED <<envVars, autoStarts, produced, recent, regVars, auxVars>>

TextNext ==
  \/ Start
  \/ TextOutput

TextSpec == TextInit /\ [][TextNext]_vars

\* ------------------------------------------------------- escape sequences
\* The escape specification: a process prints a line character by
\* character, and parseLogLine cleans what has been printed so far.  The
\* characters are told apart as the pattern /\u001B\[[0-9;]*[mGKF]/g does:
\* the escape character, the bracket, a parameter character ("0" for a digit
\* or semicolon), a final character ("m" for m, G, K or F), another visible
\* character and the blank.
EscChars == {"ESC", "[", "0", "m", "x", " "}

\* the pattern tried at position i of line: the position after the match,
\* or 0 when it does not match there; the parameters are taken greedily and
\* giving some back cannot help, a parameter being no final character
RECURSIVE matchParams(_, _)
matchParams(line, j) ==
  IF j <= Len(line) /\ line[j] = "0" THEN matchParams(line, j + 1) ELSE j

matchEscape(line, i) ==
  IF i + 1 <= Len(line) /\ line[i] = "ESC" /\ line[i + 1] = "["
  THEN LET j == matchParams(line, i + 2)
       IN IF j <= Len(line) /\ line[j] = "m" THEN j + 1 ELSE 0
  ELSE 0

\* line.replace(pattern, ''): one scan from the left, each match removed and
\* the scan resumed after it
RECURSIVE replaceEscapes(_, _)
replaceEscapes(line, i) ==
  IF i > Len(line) THEN <<>>
  ELSE IF matchEscape(line, i) # 0
  THEN replaceEscapes(line, matchEscape(line, i))
  ELSE <<line[i]>> \o replaceEscapes(line, i + 1)

\* cleanLine of parseLogLine
cleanLine(line) == trim(replaceEscapes(line, 1))

EscapeInit ==
  /\ Init
  /\ jarExists
  /\ ~autoRestart

\* the process prints one more character of the line
PrintChar ==
  /\ Len(text) < MaxLine
  /\ \E c \in EscChars : text' = Append(text, c)
  /\ lastOp' = Op("printChar", "none")
  /\ UNCHANGED <<objVars, envVars, autoStarts, outputBuffer, produced, recent, regVars,
                 auxVars>>

\* parseLogLine cleans the line
CleanLine ==
  /\ text' = cleanLine(text)
  /\ lastOp' = Op("cleanLine", "none")
  /\ UNCHANGED <<objVars, envVars, autoStarts, outputBuffer, produced, recent, regVars,
                 auxVars>>

EscapeNext ==
  \/ PrintChar
  \/ CleanLine

EscapeSpec == EscapeInit /\ [][EscapeNext]_vars

\* ------------------------------------------------------------------ destroy
\* The destroy specification: the supervisor with the subscribers of its
\* events, and destroy() called at any moment.

\* EventEmitter.emit calls the listeners registered at the time: the events
\* of the last step that reached a subscriber
Delivered == IF listeners THEN emitted ELSE <<>>

\* mutant: the subscriptions are kept
destroy_KeepsListeners(t) ==
  [this |-> IF t.childProcess # NULL THEN kill(t, t.childProcess, "SIGKILL") ELSE t,
   removeAllListeners |-> FALSE]

destroy(t) ==
  [this |-> IF t.childProcess # NULL THEN kill(t, t.childProcess, "SIGKILL") ELSE t,
   removeAllListeners |-> TRUE]

\* a call of destroy()
Destroy ==
  /\ LET r == destroy(This)
     IN /\ Commit(r.this)
        /\ Deliver(r.this)
        /\ listeners' = (listeners /\ ~r.removeAllListeners)
  /\ lastOp' = Op("destroy", "none")
  /\ UNCHANGED <<nextPid, jarExists, autoRestart, autoStarts, bufVars, regVars,
                 pollers, pollTick, dbVars>>

DestroyNext ==
  \/ Start
  \/ RestartTimer
  \/ Output
  \/ ProcessExits
  \/ ExitEvent
  \/ SpawnError
  \/ Destroy

DestroySpec == Init /\ [][DestroyNext]_vars

\* ------------------------------------------------------------------ restart
\* The restart specification: restart() and the timers and process
\* notifications it waits for.  `await this.stop()` resumes before any timer
\* or process notification, so a call of restart() runs up to its first
\* checkStatus in one step.

\* checkStatus of restart(): start() once the status is stopped, else a
\* timer for the next check (poll)
checkStatus(t, outcome, now) ==
  IF t.status = "stopped"
  THEN LET r == start(t, outcome, now)
       IN [this |-> r.this, started |-> r.ret, poll |-> FALSE]
  ELSE [this |-> t, started |-> "none", poll |-> TRUE]

restart(t, outcome, now) ==
  IF t.status = "stopped"
  THEN LET r == start(t, outcome, now)
       IN [this |-> r.this, started |-> r.ret, poll |-> FALSE]
  ELSE checkStatus(stop(t, FALSE).this, outcome, now)

RestartInit ==
  /\ Init
  /\ jarExists
  /\ ~autoRestart

\* a call of restart(); every call is left a process to spawn
Restart ==
  /\ nextPid + pollers <= MaxSpawns
  /\ (childProcess # NULL /\ status # "stopped") => exitListeners[childProcess] < MaxStops
  /\ \E outcome \in SpawnOutcomes, now \in Clock :
       LET r == restart(This, outcome, now)
       IN /\ Commit(r.this)
          /\ Spawn([ret |-> r.started], outcome)
          /\ pollers' = IF r.poll THEN pollers + 1 ELSE pollers
          /\ lastOp' = [Op("restart", r.started) EXCEPT !.outcome = outcome]
  /\ UNCHANGED <<procExit, jarExists, autoRestart, autoStarts, bufVars, regVars,
                 listeners, pollTick, dbVars>>

\* a checkStatus timer of restart() fires
RestartPoll ==
  /\ pollers > 0
  /\ \E outcome \in SpawnOutcomes, now \in Clock :
       LET r == checkStatus(This, outcome, now)
       IN /\ Commit(r.this)
          /\ Spawn([ret |-> r.started], outcome)
          /\ pollers' = IF r.poll THEN pollers ELSE pollers - 1
          /\ pollTick' = IF r.poll THEN ~pollTick ELSE pollTick
          /\ lastOp' = [Op("restartPoll", r.started) EXCEPT
                          !.outcome = IF r.poll THEN "" ELSE outcome]
  /\ UNCHANGED <<procExit, jarExists, autoRestart, autoStarts, bufVars, regVars,
                 listeners, dbVars>>

RestartNext ==
  \/ Restart
  \/ RestartPoll
  \/ StopTimeout
  \/ ProcessExits
  \/ ExitEvent
  \/ SpawnError

\* timers fire and process notifications are delivered
RestartSpec ==
  /\ RestartInit
  /\ [][RestartNext]_vars
  /\ WF_vars(RestartPoll)
  /\ WF_vars(StopTimeout)
  /\ WF_vars(ExitEvent)

\* -------------------------------------------------------------- the service
\* The service specification: ServerControlService for one server id.  Its
\* methods run to their first wait on the database or on a timer: start()
\* and stop() return settled promises, so nothing else runs between the
\* check of runningServers, the construction of the supervisor, its start()
\* and the cleanup after it.  The service starts a supervisor once and never
\* restarts it (autoRestart: false), so a supervisor owns at most the one
\* process it spawned and is named by it; a supervisor whose start() failed is
\* dropped with no process and no timer.

\* the service at the start of a call
Service ==
  [runningServers |-> runningServers, supervisors |-> supervisors,
   pendingDeletes |-> pendingDeletes, signalled |-> <<>>,
   record |-> record, clock |-> clock]

CommitService(reg) ==
  /\ runningServers' = reg.runningServers
  /\ supervisors' = reg.supervisors
  /\ pendingDeletes' = reg.pendingDeletes
  /\ record' = reg.record

\* updateStatus of the record; every instance of the record is loaded from
\* and saved to the same row, and the time is counted in whole seconds
updateStatus(rec, newStatus, now) ==
  LET r == IF rec.status = "running" /\ newStatus = "stopped"
           THEN [rec EXCEPT !.lastStopped = now,
                            !.totalUptime = IF rec.lastStarted # NULL
                                            THEN @ + (now - rec.lastStarted)
                                            ELSE @]
           ELSE IF rec.status # "running" /\ newStatus = "running"
           THEN [rec EXCEPT !.lastStarted = now]
           ELSE rec
  IN [r EXCEPT !.status = newStatus]

\* the status each listener of setupServerEventListeners records
StatusOfEvent ==
  [started |-> "running", stopped |-> "stopped", crashed |-> "crashed",
   error |-> "error", starting |-> "starting", stopping |-> "stopping"]

\* the listeners of setupServerEventListeners run on the events of a step,
\* each up to the save of its updateStatus
RECURSIVE setupServerEventListeners(_, _, _)
setupServerEventListeners(rec, events, now) ==
  IF events = <<>>
  THEN rec
  ELSE setupServerEventListeners(
         IF Head(events).type \in DOMAIN StatusOfEvent
         THEN updateStatus(rec, StatusOfEvent[Head(events).type], now)
         ELSE rec,
         Tail(events), now)

\* a supervisor between two steps: its effect logs have been consumed
settled(t) == [t EXCEPT !.emitted = <<>>, !.written = <<>>, !.signalled = <<>>]

\* the 'stopped' and 'crashed' listeners of setupServerEventListeners started
\* by the events of a step: each awaits updateStatus and then deletes the id
listenersStarted(t) ==
  Len(SelectSeq(t.emitted, LAMBDA e : e.type \in {"stopped", "crashed"}))

\* mutant: the service does not look at runningServers before it starts
startServer_NoHasCheck(reg, setUp, outcome, now) ==
  IF ~setUp
  THEN [reg |-> reg, success |-> FALSE, created |-> FALSE, started |-> "none"]
  ELSE LET r == start(NewSupervisor, outcome, now)
           rec == setupServerEventListeners(reg.record, r.this.emitted, reg.clock)
       IN IF r.ret = "true"
          THEN [reg |-> [reg EXCEPT !.runningServers = nextPid,
                                    !.supervisors = Append(@, settled(r.this)),
                                    !.record = updateStatus(rec, "starting", reg.clock)],
                success |-> TRUE, created |-> TRUE, started |-> r.ret]
          ELSE [reg |-> [reg EXCEPT !.runningServers = NULL,
                                    !.record = IF r.ret = "throw"
                                               THEN updateStatus(rec, "error", reg.clock)
                                               ELSE rec],
                success |-> FALSE, created |-> TRUE, started |-> r.ret]

\* mutant: a supervisor whose start failed stays in runningServers
startServer_KeepsFailed(reg, setUp, outcome, now) ==
  IF reg.runningServers # NULL
  THEN [reg |-> reg, success |-> FALSE, created |-> FALSE, started |-> "none"]
  ELSE IF ~setUp
  THEN [reg |-> reg, success |-> FALSE, created |-> FALSE, started |-> "none"]
  ELSE LET r == start(NewSupervisor, outcome, now)
           rec == setupServerEventListeners(reg.record, r.this.emitted, reg.clock)
       IN IF r.ret = "true"
          THEN [reg |-> [reg EXCEPT !.runningServers = nextPid,
                                    !.supervisors = Append(@, settled(r.this)),
                                    !.record = updateStatus(rec, "starting", reg.clock)],
                success |-> TRUE, created |-> TRUE, started |-> r.ret]
          ELSE [reg |-> [reg EXCEPT !.runningServers = nextPid,
                                    !.supervisors = Append(@, settled(r.this)),
                                    !.record = IF r.ret = "throw"
                                               THEN updateStatus(rec, "error", reg.clock)
                                               ELSE rec],
                success |-> FALSE, created |-> TRUE, started |-> r.ret]

\* startServer(serverInstance); setUp: serverPath and jarFile are filled in
startServer(reg, setUp, outcome, now) ==
  IF reg.runningServers # NULL
  THEN [reg |-> reg, success |-> FALSE, created |-> FALSE, started |-> "none"]
  ELSE IF ~setUp
  THEN [reg |-> reg, success |-> FALSE, created |-> FALSE, started |-> "none"]
  ELSE LET r == start(NewSupervisor, outcome, now)
           rec == setupServerEventListeners(reg.record, r.this.emitted, reg.clock)
       IN IF r.ret = "true"
          THEN [reg |-> [reg EXCEPT !.runningServers = nextPid,
                                    !.supervisors = Append(@, settled(r.this)),
                                    !.record = updateStatus(rec, "starting", reg.clock)],
                success |-> TRUE, created |-> TRUE, started |-> r.ret]
          \* start() returned false or threw: runningServers.delete(id), and
          \* in the catch block updateStatus('error')
          ELSE [reg |-> [reg EXCEPT !.runningServers = NULL,
                                    !.record = IF r.ret = "throw"
                                               THEN updateStatus(rec, "error", reg.clock)
                                               ELSE rec],
                success |-> FALSE, created |-> TRUE, started |-> r.ret]

\* stopServer(serverInstance)
stopServer(reg) ==
  IF reg.runningServers = NULL
  THEN [reg |-> reg, success |-> FALSE]
  ELSE LET s == reg.runningServers
           r == stop(reg.supervisors[s], FALSE)
       IN [reg |-> [reg EXCEPT !.supervisors[s] = settled(r.this),
                               !.pendingDeletes = @ + listenersStarted(r.this),
                               !.signalled = r.this.signalled,
                               !.record = updateStatus(
                                            setupServerEventListeners(@, r.this.emitted, reg.clock),
                                            "stopping", reg.clock)],
           success |-> TRUE]

\* sendCommand(serverInstance, command): the result of executeCommand is
\* not looked at
sendCommand(reg, command) ==
  IF reg.runningServers = NULL
  THEN [reg |-> reg, success |-> FALSE]
  ELSE LET s == reg.runningServers
           r == executeCommand(reg.supervisors[s], command)
       IN [reg |-> [reg EXCEPT !.supervisors[s] = settled(r.this),
                               !.record = setupServerEventListeners(@, r.this.emitted, reg.clock)],
           success |-> TRUE]

\* stopAllServers(): stop() on every tracked supervisor, then clear()
stopAllServers(reg) ==
  IF reg.runningServers = NULL
  THEN reg
  ELSE LET s == reg.runningServers
           r == stop(reg.supervisors[s], FALSE)
       IN [reg EXCEPT !.supervisors[s] = settled(r.this),
                      !.pendingDeletes = @ + listenersStarted(r.this),
                      !.signalled = r.this.signalled,
                      !.record = setupServerEventListeners(@, r.this.emitted, reg.clock),
                      !.runningServers = NULL]

\* a further graceful stop() may register its listener on the tracked process
MayStop ==
  LET s == runningServers
  IN (s # NULL /\ supervisors[s].status # "stopped" /\ supervisors[s].childProcess # NULL)
       => supervisors[s].exitListeners[supervisors[s].childProcess] < MaxServiceStops

\* a timer or a process notification: no call on the service
ServiceEvent ==
  [op |-> "event", via |-> "", tracked |-> FALSE, success |-> FALSE, created |-> FALSE]

RegOp(op, success, created) ==
  [op |-> op, via |-> "", tracked |-> runningServers # NULL, success |-> success,
   created |-> created]

ServiceInit ==
  /\ Init
  /\ ~autoRestart

StartServer ==
  /\ nextPid <= MaxSpawns
  /\ \E setUp \in BOOLEAN, outcome \in SpawnOutcomes, now \in Clock :
       LET res == startServer(Service, setUp, outcome, now)
       IN /\ CommitService(res.reg)
          /\ Spawn([ret |-> res.started], outcome)
          /\ lastReg' = RegOp("startServer", res.success, res.created)
  /\ UNCHANGED <<objVars, procExit, jarExists, autoRestart, lastOp, autoStarts, bufVars,
                 pendingRestarts, listeners, pollers, pollTick, clock>>

StopServer ==
  /\ MayStop
  /\ LET res == stopServer(Service)
     IN /\ CommitService(res.reg)
        /\ Deliver(res.reg)
        /\ lastReg' = RegOp("stopServer", res.success, FALSE)
  /\ UNCHANGED <<objVars, nextPid, jarExists, autoRestart, lastOp, autoStarts, bufVars,
                 pendingRestarts, listeners, pollers, pollTick, clock>>

\* restartServer up to its wait: stopServer, and on success the 2 s delay
RestartServer ==
  /\ MayStop
  /\ pendingRestarts < MaxPendingRestarts
  \* every pending restartServer is left a process to spawn
  /\ nextPid + pendingRestarts <= MaxSpawns
  /\ LET res == stopServer(Service)
     IN /\ CommitService(res.reg)
        /\ Deliver(res.reg)
        /\ pendingRestarts' = IF res.success THEN pendingRestarts + 1 ELSE pendingRestarts
        /\ lastReg' = RegOp("restartServer", res.success, FALSE)
  /\ UNCHANGED <<objVars, nextPid, jarExists, autoRestart, lastOp, autoStarts, bufVars, listeners, pollers, pollTick, clock>>

\* restartServer after its wait: startServer
RestartServerStart ==
  /\ pendingRestarts > 0
  /\ nextPid <= MaxSpawns
  /\ \E setUp \in BOOLEAN, outcome \in SpawnOutcomes, now \in Clock :
       LET res == startServer(Service, setUp, outcome, now)
       IN /\ CommitService(res.reg)
          /\ Spawn([ret |-> res.started], outcome)
          /\ lastReg' = [RegOp("startServer", res.success, res.created)
                            EXCEPT !.via = "restartServer"]
  /\ pendingRestarts' = pendingRestarts - 1
  /\ UNCHANGED <<objVars, procExit, jarExists, autoRestart, lastOp, autoStarts, bufVars, listeners, pollers, pollTick, clock>>

StopAllServers ==
  /\ MayStop
  /\ LET reg == stopAllServers(Service)
     IN /\ CommitService(reg)
        /\ Deliver(reg)
        /\ lastReg' = RegOp("stopAllServers", TRUE, FALSE)
  /\ UNCHANGED <<objVars, nextPid, jarExists, autoRestart, lastOp, autoStarts, bufVars,
                 pendingRestarts, listeners, pollers, pollTick, clock>>

\* a 'stopped' or 'crashed' listener resumes after updateStatus:
\* this.runningServers.delete(serverInstance.id)
ListenerDelete ==
  /\ pendingDeletes > 0
  /\ pendingDeletes' = pendingDeletes - 1
  /\ runningServers' = NULL
  /\ lastReg' = RegOp("listenerDelete", TRUE, FALSE)
  /\ UNCHANGED <<objVars, envVars, lastOp, autoStarts, bufVars, supervisors, pendingRestarts, auxVars>>

\* the graceful-stop timeout of the supervisor of process p fires
ServiceStopTimeout ==
  /\ \E p \in DOMAIN supervisors :
       /\ supervisors[p].stopTimeouts[p] > 0
       /\ LET t == stopTimeoutCallback([supervisors[p] EXCEPT !.stopTimeouts[p] = @ - 1])
          IN /\ supervisors' = [supervisors EXCEPT ![p] = settled(t)]
             /\ Deliver(t)
             /\ lastReg' = ServiceEvent
  /\ UNCHANGED <<objVars, nextPid, jarExists, autoRestart, lastOp, autoStarts, bufVars,
                 runningServers, pendingDeletes, pendingRestarts, auxVars>>

\* process p exits on its own
ServiceProcessExits ==
  /\ \E p \in Pids, code \in {0, 1} :
       /\ procState[p] = "alive"
       /\ procState' = [procState EXCEPT ![p] = "exited"]
       /\ procExit' = [procExit EXCEPT ![p] = code]
  /\ lastReg' = ServiceEvent
  /\ UNCHANGED <<objVars, nextPid, jarExists, autoRestart, lastOp, autoStarts, bufVars,
                 runningServers, supervisors, pendingDeletes, pendingRestarts, auxVars>>

\* the exit notification of process p reaches its supervisor, whose 'stopped'
\* and 'crashed' events start the listeners of the service
ServiceExitEvent ==
  /\ \E p \in Pids :
       /\ procState[p] = "exited"
       /\ procState' = [procState EXCEPT ![p] = "reaped"]
       /\ LET t == processExitEvent(supervisors[p], p, procExit[p])
          IN /\ supervisors' = [supervisors EXCEPT ![p] = settled(t)]
             /\ pendingDeletes' = pendingDeletes + listenersStarted(t)
             /\ record' = setupServerEventListeners(record, t.emitted, clock)
  /\ lastReg' = ServiceEvent
  /\ UNCHANGED <<objVars, procExit, nextPid, jarExists, autoRestart, lastOp, autoStarts,
                 bufVars, runningServers, pendingRestarts, listeners, pollers, pollTick, clock>>

\* ------------------------------------------------------- the persisted record
\* The record specification: the service with one server, the output of its
\* process and the passing of time.

\* the chunks a process prints in the record specification
ServiceChunks == {<<Line(k, "", 0, <<>>)>> : k \in {"ready", "other", "error"}}

\* a chunk of output of process p reaches its supervisor, whose events run
\* the listeners of the service
ServiceOutput ==
  /\ \E p \in DOMAIN supervisors, data \in ServiceChunks :
       /\ procState[p] \in {"alive", "exited"}
       /\ LET t == handleOutput(supervisors[p], data)
          IN /\ supervisors' = [supervisors EXCEPT ![p] = settled(t)]
             /\ record' = setupServerEventListeners(record, t.emitted, clock)
  /\ lastReg' = ServiceEvent
  /\ UNCHANGED <<objVars, envVars, lastOp, autoStarts, bufVars, runningServers,
                 pendingDeletes, pendingRestarts, listeners, pollers, pollTick, clock>>

\* a call of sendCommand
SendCommand ==
  /\ \E command \in Commands :
       LET res == sendCommand(Service, command)
       IN /\ CommitService(res.reg)
          /\ lastReg' = RegOp("sendCommand", res.success, FALSE)
  /\ UNCHANGED <<objVars, envVars, lastOp, autoStarts, bufVars, pendingRestarts,
                 listeners, pollers, pollTick, clock>>

\* a second passes
Tick ==
  /\ clock < MaxClock
  /\ clock' = clock + 1
  /\ lastReg' = ServiceEvent
  /\ UNCHANGED <<objVars, envVars, lastOp, autoStarts, bufVars, runningServers,
                 supervisors, pendingDeletes, pendingRestarts, listeners, pollers,
                 pollTick, record>>

RecordNext ==
  \/ StartServer
  \/ StopServer
  \/ RestartServer
  \/ RestartServerStart
  \/ SendCommand
  \/ ListenerDelete
  \/ ServiceOutput
  \/ Tick
  \/ ServiceStopTimeout
  \/ ServiceProcessExits
  \/ ServiceExitEvent

RecordSpec == ServiceInit /\ [][RecordNext]_vars

ServiceNext ==
  \/ StartServer
  \/ StopServer
  \/ RestartServer
  \/ RestartServerStart
  \/ StopAllServers
  \/ ListenerDelete
  \/ ServiceStopTimeout
  \/ ServiceProcessExits
  \/ ServiceExitEvent

ServiceSpec == ServiceInit /\ [][ServiceNext]_vars

\* ----------------------------------------------------------------- claims
HasEvent(type) == \E i \in 1..Len(emitted) : emitted[i].type = type

\* C1: start() on a Stopped supervisor whose jar exists and whose spawn does
\* not throw leaves the status Starting (handle set, start time recorded,
\* restart counter 0) when it returns, and the status turns Running only in a
\* step that parses a Ready line of process output, never in start().
C1_StartingThenRunningOnReady ==
  [][/\ (lastOp'.op = "start" /\ status = "stopped" /\ jarExists
            /\ lastOp'.outcome # "throw")
        => /\ lastOp'.ret = "true"
           /\ status' = "starting"
           /\ childProcess' # NULL
           /\ startTime' # NULL
           /\ restartAttempts' = 0
     /\ (status' = "running" /\ status # "running")
        => lastOp'.op = "output" /\ HasEvent("started")']_vars

C1_Witness ==
  /\ lastOp.op = "output"
  /\ lastOp.from = "starting"
  /\ status = "running"
  /\ HasEvent("started")

\* C2 (as claimed): start() in a status other than Stopped returns false
\* (does not raise) and changes neither the status, the process handle, the
\* start time nor the restart counter, and spawns nothing.
C2_StartRejectedReturnsFalse ==
  [][(lastOp'.op = "start" /\ status # "stopped")
       => /\ lastOp'.ret = "false"
          /\ UNCHANGED <<status, childProcess, startTime, restartAttempts,
                         procState, nextPid>>]_vars

\* C3: executeCommand returns true, writes the text to the input of the child
\* process and emits one command event exactly when the status is Running and
\* a process handle is held; otherwise it returns false, writes nothing and
\* emits nothing.
C3_CommandGating ==
  lastOp.op = "executeCommand"
    => IF lastOp.from = "running" /\ lastOp.pid # NULL
       THEN /\ lastOp.ret = "true"
            /\ Len(written) = 1
            /\ written[1][1] = lastOp.pid
            /\ written[1][2] \in Commands
            /\ Len(emitted) = 1
            /\ emitted[1].type = "command"
       ELSE /\ lastOp.ret = "false"
            /\ written = <<>>
            /\ emitted = <<>>

C3_Witness ==
  /\ lastOp.op = "executeCommand"
  /\ lastOp.from = "running"
  /\ lastOp.ret = "true"
  /\ written # <<>>

\* C4 (as claimed): stop(false) on a Running supervisor with a process writes
\* "stop" to the input of that process and arms the graceful-stop timeout.
C4_GracefulStopWritesStop ==
  (lastOp.op = "stop" /\ ~lastOp.force /\ lastOp.from = "running" /\ lastOp.pid # NULL)
    => /\ written = << <<lastOp.pid, "stop">> >>
       /\ stopTimeouts[lastOp.pid] >= 1

\* C5 (as claimed): when the graceful-stop timeout expires and the process
\* handle is still held, the signal sent is the forceful one (SIGKILL).
C5_TimeoutKillsForcefully ==
  (lastOp.op = "stopTimeout" /\ lastOp.pid # NULL)
    => signalled = << <<lastOp.pid, "SIGKILL">> >>

\* C6: once the exit notification of a process has been handled no
\* graceful-stop timeout armed on that process is pending, and a timeout that
\* fires signals only the process it was armed on.
C6_NoTimeoutAfterExit ==
  /\ \A p \in Pids : procState[p] = "reaped" => stopTimeouts[p] = 0
  /\ (lastOp.op = "stopTimeout" /\ signalled # <<>>) => signalled[1][1] = lastOp.proc

C6_Witness ==
  /\ lastOp.op = "exit"
  /\ lastOp.armed > 0
  /\ procState[lastOp.proc] = "reaped"
  /\ stopTimeouts[lastOp.proc] = 0

\* C7: after an exit notification the process handle is dropped and the
\* player set and start time are cleared; exit code 0 leaves the status
\* Stopped with a stopped event, a nonzero exit code leaves it Crashed with a
\* crashed event, whatever the status was before.
C7_ExitOutcome ==
  lastOp.op = "exit"
    => /\ childProcess = NULL
       /\ players = {}
       /\ startTime = NULL
       /\ lastOp.code = 0 => status = "stopped" /\ HasEvent("stopped")
       /\ lastOp.code \notin {0, SignalCode} => status = "crashed" /\ HasEvent("crashed")

C7_Witness ==
  /\ lastOp.op = "exit"
  /\ lastOp.from = "stopping"
  /\ lastOp.code = 1
  /\ status = "crashed"
  /\ HasEvent("crashed")

\* C8 (as claimed): with auto-restart enabled, once the supervisor has settled
\* in Crashed after a crash (no restart timer pending), exactly
\* maxRestartAttempts processes have been spawned by automatic restarts.
C8_ThreeAutomaticRestarts ==
  (autoRestart /\ jarExists /\ status = "crashed" /\ restartTimers = 0
     /\ lastOp.op \in {"exit", "restartTimer"})
    => autoStarts = maxRestartAttempts

\* C9 (as claimed): an explicit start() on a Crashed supervisor (jar present,
\* spawn not failing) spawns a process and leaves the status Starting.
C9_StartFromCrashedAccepted ==
  (lastOp.op = "start" /\ lastOp.from = "crashed" /\ jarExists /\ lastOp.outcome # "throw")
    => /\ lastOp.ret = "true"
       /\ status = "starting"
       /\ childProcess # NULL

\* C10 (as claimed): a start() on a Stopped supervisor that fails because the
\* jar is missing or the spawn throws leaves the status Crashed, and
\* getStatus().status reports Crashed.
C10_FailedStartIsCrashed ==
  (lastOp.op = "start" /\ lastOp.from = "stopped"
     /\ (~jarExists \/ lastOp.outcome = "throw"))
    => status = "crashed" /\ getStatus.status = "crashed"

\* C11: stop() on a Stopped supervisor returns true and does nothing: no
\* field, timer or listener changes, no event is emitted, nothing is written
\* or signalled, and no process is affected.
C11_StopOnStoppedIsNoOp ==
  [][(lastOp'.op = "stop" /\ status = "stopped")
       => /\ lastOp'.ret = "true"
          /\ emitted' = <<>>
          /\ written' = <<>>
          /\ signalled' = <<>>
          /\ UNCHANGED <<status, childProcess, startTime, players, maxPlayers,
                         restartAttempts, stopTimeouts, exitListeners,
                         restartTimers, procState, procExit>>]_vars

C11_Witness ==
  /\ lastOp.op = "stop"
  /\ lastOp.from = "stopped"
  /\ lastOp.ret = "true"
  /\ status = "stopped"
  /\ nextPid > 1

\* C12 (as claimed): stop() on a Crashed supervisor returns true, leaves the
\* status Crashed and emits no event.
C12_StopOnCrashedIsNoOp ==
  (lastOp.op = "stop" /\ lastOp.from = "crashed")
    => /\ lastOp.ret = "true"
       /\ status = "crashed"
       /\ emitted = <<>>

\* C12 (amended): stop() on a Crashed supervisor (which holds no process)
\* returns true, signals and writes nothing and arms no timeout, but moves
\* the status through Stopping to Stopped and emits the status change to
\* stopping, the stopping event and the status change to stopped.
C12_StopOnCrashedEndsStopped ==
  [][(lastOp'.op = "stop" /\ status = "crashed")
       => /\ childProcess = NULL
          /\ lastOp'.ret = "true"
          /\ status' = "stopped"
          /\ written' = <<>>
          /\ signalled' = <<>>
          /\ UNCHANGED <<childProcess, stopTimeouts, exitListeners, restartTimers,
                         procState, procExit>>
          /\ Len(emitted') = 3
          /\ emitted'[1].type = "statusChange" /\ emitted'[1].newStatus = "stopping"
          /\ emitted'[2].type = "stopping"
          /\ emitted'[3].type = "statusChange" /\ emitted'[3].newStatus = "stopped"]_vars

C12_Witness ==
  /\ lastOp.op = "stop"
  /\ lastOp.from = "crashed"
  /\ status = "stopped"
  /\ Len(emitted) = 3

\* C15: a supervisor whose status is Stopped holds no process handle.
C15_StoppedHasNoProcess ==
  status = "stopped" => childProcess = NULL

C15_Witness ==
  /\ status = "stopped"
  /\ lastOp.op = "exit"
  /\ lastOp.pid # NULL
  /\ childProcess = NULL

\* C16 (as claimed): a supervisor whose status is Running holds a process
\* handle and a start time.
C16_RunningHasProcess ==
  status = "running" => childProcess # NULL /\ startTime # NULL

\* the last n elements of a sequence (all of them if it is shorter)
LastN(seq, n) == SubSeq(seq, Len(seq) - Min(n, Len(seq)) + 1, Len(seq))

\* C17: the output buffer never holds more than maxOutputBuffer lines, and
\* once at least maxOutputBuffer lines have been produced
\* getRecentOutput(maxOutputBuffer) returns exactly the last maxOutputBuffer
\* lines produced, in production order.
C17_BufferBounded ==
  /\ Len(outputBuffer) <= maxOutputBuffer
  /\ (recent.n = maxOutputBuffer /\ Len(produced) >= maxOutputBuffer)
       => recent.lines = LastN(produced, maxOutputBuffer)

C17_Witness ==
  /\ recent.n = maxOutputBuffer
  /\ Len(produced) > maxOutputBuffer
  /\ Len(recent.lines) = maxOutputBuffer
  /\ recent.lines[1] = Len(produced) - maxOutputBuffer + 1

\* C18 (as claimed): getRecentOutput(n), n >= 0, returns the last
\* min(n, buffered lines) lines of the buffer in order; for n = 0 that is the
\* empty sequence, and the result never has more than n lines.
C18_RecentOutputLastN ==
  recent.n >= 0
    => /\ recent.lines = LastN(outputBuffer, recent.n)
       /\ Len(recent.lines) <= recent.n

\* the lines of the chunk handled by the last step, from its output events
OutputLines(events) ==
  LET outs == SelectSeq(events, LAMBDA e : e.type = "output")
  IN [i \in 1..Len(outs) |-> outs[i].output]

PlayerEvents(events) ==
  SelectSeq(events, LAMBDA e : e.type \in {"playerJoin", "playerLeave"})

\* C19: a join line for a name followed by a leave line for the same name,
\* fed through handleOutput, leaves the player set as it was without that
\* name and emits exactly one playerJoin and then one playerLeave for it.
C19_JoinThenLeave ==
  [][\A n \in ParseNames :
       (lastOp'.op = "output"
          /\ OutputLines(emitted') = <<Line("join", n, 0, <<>>), Line("leave", n, 0, <<>>)>>)
       => /\ players' = players \ {n}
          /\ PlayerEvents(emitted') = <<[type |-> "playerJoin", playerName |-> n],
                                        [type |-> "playerLeave", playerName |-> n]>>]_vars

C19_Witness ==
  /\ lastOp.op = "output"
  /\ OutputLines(emitted) = <<Line("join", "bob", 0, <<>>), Line("leave", "bob", 0, <<>>)>>
  /\ players = {"alice"}

LiveProcesses == {p \in Pids : procState[p] = "alive"}

\* C13: startServer called while a supervisor for the id is tracked in
\* runningServers returns a failure result, creates no supervisor and spawns
\* no process, whatever calls came before it.
C13_StartWhileTrackedFails ==
  [][(lastReg'.op = "startServer" /\ runningServers # NULL)
       => /\ lastReg'.success = FALSE
          /\ lastReg'.created = FALSE
          /\ nextPid' = nextPid
          /\ procState' = procState
          /\ runningServers' = runningServers
          /\ supervisors' = supervisors]_vars

C13_Witness ==
  /\ lastReg.op = "startServer"
  /\ lastReg.tracked
  /\ ~lastReg.success
  /\ runningServers # NULL
  /\ LiveProcesses = {runningServers}
  /\ nextPid = 2

\* C14 (as claimed): at most one child process of the server id is alive at
\* any time, and every live process is the process of the supervisor tracked
\* in runningServers.
C14_OneLiveProcessTracked ==
  /\ Cardinality(LiveProcesses) <= 1
  /\ \A p \in LiveProcesses : runningServers = p

EventCount(events, types) == Len(SelectSeq(events, LAMBDA e : e.type \in types))

\* C25 (as claimed): a line containing ERROR, FATAL or Exception makes the
\* supervisor emit an error event and leaves the status, the process handle
\* and the restart-attempt counter unchanged.
C25_ErrorLineChangesNothing ==
  [][\A l \in Lines :
       (lastOp'.op = "output" /\ OutputLines(emitted') = <<l>>
          /\ l.kind \in {"error", "readyError"})
       => /\ EventCount(emitted', {"error"}) = 1
          /\ status' = status
          /\ childProcess' = childProcess
          /\ restartAttempts' = restartAttempts]_vars

\* C25 (amended): such a line emits one error event and leaves the process
\* handle and the restart-attempt counter unchanged; the status is unchanged
\* unless the line is a Ready line as well, which makes it Running.
C25_ErrorLineEmitsError ==
  [][\A l \in Lines :
       (lastOp'.op = "output" /\ OutputLines(emitted') = <<l>>
          /\ l.kind \in {"error", "readyError"})
       => /\ EventCount(emitted', {"error"}) = 1
          /\ childProcess' = childProcess
          /\ restartAttempts' = restartAttempts
          /\ status' = IF l.kind = "readyError" THEN "running" ELSE status]_vars

C25_Witness ==
  /\ lastOp.op = "output"
  /\ lastOp.from = "stopping"
  /\ OutputLines(emitted) = <<Line("error", "", 0, <<>>)>>
  /\ EventCount(emitted, {"error"}) = 1
  /\ status = "stopping"
  /\ childProcess # NULL

\* C26: the restart-attempt counter stays within 0..maxRestartAttempts,
\* also when one exit is handled by several exit handlers.
C26_RestartAttemptsBounded ==
  restartAttempts >= 0 /\ restartAttempts <= maxRestartAttempts

\* an exit with code 1 handled four times: the fourth finds the counter at 3
C26_Witness ==
  /\ lastOp.op = "exit"
  /\ lastOp.code = 1
  /\ EventCount(emitted, {"crashed"}) = 4
  /\ restartAttempts = maxRestartAttempts

\* C29 (as claimed): a Ready line makes the status Running and emits started
\* only when the status is Starting; in any other status it changes no status
\* and emits no started event.
C29_ReadyOnlyFromStarting ==
  [][(lastOp'.op = "output" /\ OutputLines(emitted') = <<Line("ready", "", 0, <<>>)>>)
       => IF status = "starting"
          THEN status' = "running" /\ EventCount(emitted', {"started"}) = 1
          ELSE status' = status /\ EventCount(emitted', {"started"}) = 0]_vars

\* C30 (as claimed): each process exit is handled once: it produces exactly
\* one stopped or crashed event and schedules at most one restart, however
\* many times stop(false) was called on the process.
C30_ExitHandledOnce ==
  [][lastOp'.op = "exit"
       => /\ EventCount(emitted', {"stopped", "crashed"}) = 1
          /\ restartTimers' <= restartTimers + 1]_vars

\* the number of lines of a chunk that hold a character other than a space:
\* counted by their first such character
NonBlankLines(data) ==
  Cardinality({i \in 1..Len(data) :
                 /\ data[i] \notin {" ", "\n"}
                 /\ \A j \in 1..(i - 1) :
                      (\A k \in j..(i - 1) : data[k] # "\n") => data[j] = " "})

RECURSIVE Flatten(_)
Flatten(seqs) == IF seqs = <<>> THEN <<>> ELSE Head(seqs) \o Flatten(Tail(seqs))

Visible(chars) == SelectSeq(chars, LAMBDA c : c \notin {" ", "\n"})

\* C21 (as claimed): chunking does not change the parse: the buffered lines,
\* the status and the player set after the chunks delivered so far are those
\* of the same text delivered in one chunk.
C21_ChunkingInvariant ==
  lastOp.op = "output"
    => LET whole == handleOutputText([This EXCEPT !.status = "starting", !.players = {}],
                                     <<>>, text)
       IN /\ outputBuffer = whole.buffer
          /\ status = whole.this.status
          /\ players = whole.this.players

\* C22: every line of a chunk that is not blank is appended to the output
\* buffer once and emitted as one output event, in arrival order and trimmed;
\* blank lines produce neither.
C22_EveryLineBufferedAndEmitted ==
  [][(lastOp'.op = "output" /\ text' # text)
       => LET data == SubSeq(text', Len(text) + 1, Len(text'))
              appended == SubSeq(outputBuffer', Len(outputBuffer) + 1, Len(outputBuffer'))
          IN /\ Len(outputBuffer') >= Len(outputBuffer)
             /\ SubSeq(outputBuffer', 1, Len(outputBuffer)) = outputBuffer
             /\ OutputLines(emitted') = appended
             /\ Len(appended) = NonBlankLines(data)
             /\ \A k \in 1..Len(appended) :
                  /\ appended[k] # <<>>
                  /\ appended[k][1] # " "
                  /\ appended[k][Len(appended[k])] # " "
                  /\ \A i \in 1..Len(appended[k]) : appended[k][i] # "\n"
             /\ Visible(Flatten(appended)) = Visible(data)]_vars

\* one chunk of a line, a blank line and a line with a leading space
C22_Witness ==
  /\ lastOp.op = "output"
  /\ text = <<"D", "\n", " ", "\n", "!">>
  /\ outputBuffer = << <<"D">>, <<"!">> >>
  /\ OutputLines(emitted) = << <<"D">>, <<"!">> >>

\* C24 (as claimed): once the old process has exited after the stop request
\* of restart(), whatever its exit code, restart() goes on to start() and
\* its wait ends.
C24_RestartCompletes ==
  (pollers > 0 /\ childProcess = NULL) ~> (pollers = 0)

\* C27: destroy() sends SIGKILL to the live process if there is one and
\* removes the subscriptions; from then on they stay removed and no event of
\* the supervisor reaches a subscriber.
C27_DestroySilences ==
  [][/\ lastOp'.op = "destroy"
          => /\ \A p \in Pids : procState[p] = "alive" => signalled' = << <<p, "SIGKILL">> >>
             /\ ~listeners'
     /\ ~listeners => (~listeners' /\ Delivered' = <<>>)]_vars

\* the exit that follows the kill of destroy(): its events reach nobody
C27_Witness ==
  /\ lastOp.op = "exit"
  /\ lastOp.code = SignalCode
  /\ ~listeners
  /\ EventCount(emitted, {"stopped"}) = 1
  /\ Delivered = <<>>

\* C23 (as claimed): when the first server, recorded as running, is stopped
\* through the registry and its process exits with code 0 while Stopping, the
\* record ends with status stopped and its totalUptime grown by the time
\* since it was recorded as running.
C23_StopAccumulatesUptime ==
  [][\A p \in DOMAIN supervisors :
       (/\ nextPid = 2
        /\ runningServers = p
        /\ supervisors[p].status = "stopping"
        /\ record.lastStarted # NULL
        /\ procState[p] = "exited"
        /\ procExit[p] = 0
        /\ procState'[p] = "reaped")
         => /\ record'.status = "stopped"
            /\ record'.totalUptime = record.totalUptime + (clock - record.lastStarted)]_vars

\* C28 (as claimed): sendCommand reports success only for a supervisor that
\* is Running.
C28_SendCommandSuccessMeansRunning ==
  (lastReg.op = "sendCommand" /\ lastReg.success)
    => (runningServers # NULL /\ supervisors[runningServers].status = "running")

StatusChanges(events) == SelectSeq(events, LAMBDA e : e.type = "statusChange")

\* the statusChange events sc lead from status from to status to
IsChain(from, sc, to) ==
  /\ \A i \in 1..Len(sc) :
       /\ sc[i].oldStatus # sc[i].newStatus
       /\ sc[i].oldStatus = IF i = 1 THEN from ELSE sc[i - 1].newStatus
  /\ to = IF sc = <<>> THEN from ELSE sc[Len(sc)].newStatus

\* C36: the statusChange events form a chain: the supervisor starts in
\* stopped, and the events of every step lead, each with oldStatus different
\* from newStatus, from the status before the step to the status after it.
C36_StatusChangeChain ==
  [][/\ lastOp.op = "init" => status = "stopped"
     /\ IsChain(status, StatusChanges(emitted'), status')]_vars

\* stop() on a crashed supervisor: two events in one call
C36_Witness ==
  /\ lastOp.op = "stop"
  /\ lastOp.from = "crashed"
  /\ Len(StatusChanges(emitted)) = 2
  /\ status = "stopped"

\* C38: the player set changes only when a join, leave or list line is
\* parsed or when the exit of a process is handled; calls of start(), stop()
\* and executeCommand(), timers and every other line leave it as it is.
C38_PlayersFrame ==
  [][players' # players
       => \/ lastOp'.op = "exit"
          \/ /\ lastOp'.op = "output"
             /\ \E i \in 1..Len(OutputLines(emitted')) :
                  OutputLines(emitted')[i].kind \in {"join", "leave", "list"}]_vars

\* a line of another kind parsed with a player online
C38_Witness ==
  /\ players # {}
  /\ lastOp.op = "output"
  /\ OutputLines(emitted) = <<Line("ready", "", 0, <<>>)>>

\* C37 (as claimed): a list line reporting no player online (nothing after
\* the colon) empties the player set and sets maxPlayers to the stated
\* maximum.
C37_EmptyListClearsPlayers ==
  [][\A l \in ParseLines :
       (lastOp'.op = "output" /\ OutputLines(emitted') = <<l>>
          /\ l.kind = "list" /\ l.names = <<>>)
         => /\ players' = {}
            /\ maxPlayers' = l.max]_vars

\* C32: stop(true) on a supervisor with a live process sets the status to
\* stopping and sends SIGKILL at once, arming no timeout and registering no
\* listener; and when the exit of a process is reported without a numeric
\* code the supervisor ends in stopped with a stopped event and no crashed
\* event, and no restart is scheduled.
C32_ForcedStopEndsStopped ==
  [][/\ (/\ lastOp'.op = "stop"
         /\ lastOp'.force
         /\ childProcess # NULL
         /\ procState[childProcess] = "alive")
          => /\ status' = "stopping"
             /\ signalled' = << <<childProcess, "SIGKILL">> >>
             /\ procState'[childProcess] = "exited"
             /\ procExit'[childProcess] = SignalCode
             /\ UNCHANGED <<childProcess, stopTimeouts, exitListeners, restartTimers>>
     /\ (lastOp'.op = "exit" /\ lastOp'.code = SignalCode)
          => /\ status' = "stopped"
             /\ EventCount(emitted', {"stopped"}) >= 1
             /\ EventCount(emitted', {"crashed"}) = 0
             /\ UNCHANGED <<restartTimers, restartAttempts>>]_vars

\* the exit of a process killed by stop(true): no graceful stop came before
\* it, so its exit is handled once
C32_Witness ==
  /\ lastOp.op = "exit"
  /\ lastOp.code = SignalCode
  /\ lastOp.from = "stopping"
  /\ EventCount(emitted, {"stopped"}) = 1
  /\ status = "stopped"
  /\ autoRestart

\* C31 (as claimed): when a call of stop() has just brought the supervisor to
\* stopped, a restart-delay timer that fires next spawns no process.
C31_NoRestartAfterStop ==
  [][(/\ lastOp.op = "stop"
      /\ lastOp.from # "stopped"
      /\ status = "stopped"
      /\ lastOp'.op = "restartTimer")
       => /\ nextPid' = nextPid
          /\ childProcess' = NULL]_vars

\* C35 (as claimed): the persisted status follows the status of the
\* supervisor: while the tracked supervisor is Running and recorded as
\* running, a step that changes no supervisor (an error line among them)
\* leaves the persisted status running.
C35_ErrorLineKeepsPersistedStatus ==
  [][(/\ runningServers # NULL
      /\ supervisors[runningServers].status = "running"
      /\ record.status = "running"
      /\ supervisors' = supervisors)
       => record'.status = "running"]_vars

\* C34: when startServer fails because start() threw or returned false, the
\* id is not tracked afterwards and no process was spawned, and a call of
\* startServer that comes next is not rejected as already running.
C34_FailedStartNotTracked ==
  [][/\ (lastReg'.op = "startServer" /\ lastReg'.created /\ ~lastReg'.success)
          => /\ runningServers' = NULL
             /\ nextPid' = nextPid
             /\ procState' = procState
     /\ (/\ lastReg.op = "startServer" /\ lastReg.created /\ ~lastReg.success
         /\ lastReg'.op = "startServer")
          => ~lastReg'.tracked]_vars

\* startServer has just failed in start(): nothing is tracked and the record
\* says error
C34_Witness ==
  /\ lastReg.op = "startServer"
  /\ lastReg.created
  /\ ~lastReg.success
  /\ ~lastReg.tracked
  /\ runningServers = NULL
  /\ record.status = "error"

\* C33 (as claimed): restartServer on the first server, tracked and recorded
\* as running, is not refused by its startServer as already running while
\* the old supervisor is still stopping.
C33_RestartNotRejected ==
  (/\ lastReg.op = "startServer"
   /\ lastReg.via = "restartServer"
   /\ nextPid = 2
   /\ record.lastStarted # NULL
   /\ runningServers # NULL => supervisors[runningServers].status = "stopping")
    => ~lastReg.tracked

\* no escape sequence of the stripped form in line
NoEscape(line) == \A i \in 1..Len(line) : matchEscape(line, i) = 0

\* C39 (as claimed): for a line as handleOutput passes it (trimmed), the
\* cleaning returns a line without escape codes unchanged, and cleaning the
\* cleaned line changes nothing: the cleaned line contains no escape
\* sequence of the stripped form.
C39_StripIdempotent ==
  trim(text) = text
    => /\ NoEscape(text) => cleanLine(text) = text
       /\ cleanLine(cleanLine(text)) = cleanLine(text)
       /\ NoEscape(cleanLine(text))
====
